---- MODULE Spec2Model ----
(***************************************************************************)
(* A model of the Standard MIDI File decoder of midi-rs:                   *)
(*   parser.rs  read_str, read_value, SysExMeta::from, MidiFile::create,   *)
(*              MidiFile::parse                                            *)
(*   status.rs  Status::from_byte, Status::parse_data                      *)
(* The buffer is a sequence of bytes (0..255) and the cursor `pos` is the  *)
(* number of bytes already consumed from it (BytesMut advances on every    *)
(* read).  A panic (a read past the end, unwrap on None, division by zero, *)
(* shift overflow in a checked build) ends the decode with result "panic". *)
(***************************************************************************)
EXTENDS Integers, Sequences, FiniteSets, TLC

\* ---------------------------------------------------------------- bounds
\* number of byte fragments that follow the first track header of a file
MaxChunks == 3
\* largest track count declared in a generated header
MaxTracks == 2

\* ------------------------------------------------------ machine integers
U8 == 2^8

RECURSIVE BitOr(_, _)
\* a | b on unsigned integers
BitOr(a, b) ==
  IF a = 0 THEN b
  ELSE IF b = 0 THEN a
  ELSE (IF a % 2 = 1 \/ b % 2 = 1 THEN 1 ELSE 0) + 2 * BitOr(a \div 2, b \div 2)

\* (a << n) in a u32, 0 < n < 32: the bits shifted out are lost, which is
\* (a * 2^n) mod 2^32 written so that no intermediate value exceeds the result
Shl32(a, n) == (a % 2^(32 - n)) * 2^n

\* (a << d) in a u8 (the type of MetaData's fields).  A shift by 8 or more
\* panics in a build with overflow checks ("attempt to shift left with
\* overflow") and is masked to d & 7 in a build without; bits shifted out
\* of the 8 are lost in both.
Shl8(a, d, checked) ==
  IF d >= 8 /\ checked
  THEN [ok |-> FALSE, value |-> 0]
  ELSE [ok |-> TRUE, value |-> (a * 2^(d % 8)) % U8]

\* Buf::remaining()
remaining(bs, p) == Len(bs) - p

\* ---------------------------------------------------------- read_value
RECURSIVE read_value_loop(_, _, _)
\* the `loop` of read_value: p is the cursor, n_value the accumulator
read_value_loop(bs, p, n_value) ==
  IF remaining(bs, p) = 0
  THEN [ok |-> FALSE, value |-> n_value, pos |-> p]
  ELSE LET n_byte == bs[p + 1]
           n == BitOr(Shl32(n_value, 7), n_byte % 128)
       IN  IF n_byte < 128
           THEN [ok |-> TRUE, value |-> n, pos |-> p + 1]
           ELSE read_value_loop(bs, p + 1, n)

\* a plausible slip: the continuation bit of the first byte is not masked
read_value_keepbit(bs, p) ==
  IF remaining(bs, p) = 0
  THEN [ok |-> FALSE, value |-> 0, pos |-> p]
  ELSE LET n_value == bs[p + 1]
       IN  IF n_value >= 128
           THEN read_value_loop(bs, p + 1, n_value)
           ELSE [ok |-> TRUE, value |-> n_value, pos |-> p + 1]

\* read_value(bytes): ok = FALSE when a get_u8 ran past the end (panic)
read_value(bs, p) ==
  IF remaining(bs, p) = 0
  THEN [ok |-> FALSE, value |-> 0, pos |-> p]
  ELSE LET n_value == bs[p + 1]
       IN  IF n_value >= 128
           THEN read_value_loop(bs, p + 1, n_value % 128)
           ELSE [ok |-> TRUE, value |-> n_value, pos |-> p + 1]

\* ------------------------------------------------------------- read_str
\* U+FFFD, the replacement character of String::from_utf8_lossy
REPLACEMENT == 65533

IsCont(b) == b >= 128 /\ b <= 191

\* the range the second byte of a 3- or 4-byte sequence must lie in
SecondOk(b0, b1) ==
  CASE b0 = 224 -> b1 >= 160 /\ b1 <= 191
    [] b0 = 237 -> b1 >= 128 /\ b1 <= 159
    [] b0 = 240 -> b1 >= 144 /\ b1 <= 191
    [] b0 = 244 -> b1 >= 128 /\ b1 <= 143
    [] OTHER -> IsCont(b1)

\* one step of the lossy decoder at index i (1-based) of s:
\* the code point produced and the number of bytes it stands for
Utf8Step(s, i) ==
  LET b0 == s[i]
      has(k) == i + k <= Len(s)
      bad(n) == [cp |-> REPLACEMENT, n |-> n]
  IN  IF b0 < 128 THEN [cp |-> b0, n |-> 1]
      ELSE IF b0 >= 194 /\ b0 <= 223
      THEN IF has(1) /\ IsCont(s[i + 1])
           THEN [cp |-> (b0 % 32) * 64 + (s[i + 1] % 64), n |-> 2]
           ELSE bad(1)
      ELSE IF b0 >= 224 /\ b0 <= 239
      THEN IF ~(has(1) /\ SecondOk(b0, s[i + 1])) THEN bad(1)
           ELSE IF ~(has(2) /\ IsCont(s[i + 2])) THEN bad(2)
           ELSE [cp |-> (b0 % 16) * 4096 + (s[i + 1] % 64) * 64 + (s[i + 2] % 64),
                 n |-> 3]
      ELSE IF b0 >= 240 /\ b0 <= 244
      THEN IF ~(has(1) /\ SecondOk(b0, s[i + 1])) THEN bad(1)
           ELSE IF ~(has(2) /\ IsCont(s[i + 2])) THEN bad(2)
           ELSE IF ~(has(3) /\ IsCont(s[i + 3])) THEN bad(3)
           ELSE [cp |-> (b0 % 8) * 262144 + (s[i + 1] % 64) * 4096
                        + (s[i + 2] % 64) * 64 + (s[i + 3] % 64),
                 n |-> 4]
      ELSE bad(1)

RECURSIVE Utf8From(_, _)
Utf8From(s, i) ==
  IF i > Len(s) THEN <<>>
  ELSE LET st == Utf8Step(s, i) IN <<st.cp>> \o Utf8From(s, i + st.n)

\* String::from_utf8_lossy: a string is the sequence of its code points
from_utf8_lossy(s) == Utf8From(s, 1)

\* read_str(bytes, length): ok = FALSE when a get_u8 ran past the end
read_str(bs, p, length) ==
  IF remaining(bs, p) < length
  THEN [ok |-> FALSE, s |-> <<>>, pos |-> p]
  ELSE [ok |-> TRUE, s |-> from_utf8_lossy(SubSeq(bs, p + 1, p + length)),
        pos |-> p + length]

\* ------------------------------------------------------- SysExMeta::from
SysExMetaTable ==
  (0 :> "MetaSequence") @@ (1 :> "MetaText") @@ (2 :> "MetaCopyright")
  @@ (3 :> "MetaTrackName") @@ (4 :> "MetaInstrumentName")
  @@ (5 :> "MetaLyrics") @@ (6 :> "MetaMarker") @@ (7 :> "MetaCuePoint")
  @@ (32 :> "MetaChannelPrefix") @@ (47 :> "MetaEndOfTrack")
  @@ (81 :> "MetaSetTempo") @@ (84 :> "MetaSMPTEOffset")
  @@ (88 :> "MetaTimeSignature") @@ (89 :> "MetaKeySignature")
  @@ (127 :> "MetaSequencerSpecific")

\* a plausible slip: an unrecognised type byte is taken as a text event
SysExMeta_from_default(d) ==
  IF d \in DOMAIN SysExMetaTable THEN SysExMetaTable[d] ELSE "MetaText"

\* SysExMeta::from(d): "None" for an unrecognised type byte
SysExMeta_from(d) ==
  IF d \in DOMAIN SysExMetaTable THEN SysExMetaTable[d] ELSE "None"

\* ----------------------------------------------------- Status::from_byte
StatusTypeTable ==
  (128 :> "NoteOff") @@ (144 :> "NoteOn") @@ (160 :> "PolyphonicAftertouch")
  @@ (176 :> "CtrlChange") @@ (192 :> "ProgramChange")
  @@ (208 :> "ChannelAftertouch") @@ (224 :> "PitchBendChange")
  @@ (240 :> "SystemMsg")

\* a plausible slip: the match's last arm takes every other byte as a NoteOff
from_byte_lenient(byte) ==
  LET hi == byte - (byte % 16)
  IN  [ok |-> TRUE,
       status_type |-> IF hi \in DOMAIN StatusTypeTable THEN StatusTypeTable[hi]
                       ELSE "NoteOff",
       raw_status |-> byte]

\* Status::from_byte(byte): ok = FALSE is the Err("Invalid Status Byte")
from_byte(byte) ==
  LET hi == byte - (byte % 16)
  IN  IF hi \in DOMAIN StatusTypeTable
      THEN [ok |-> TRUE, status_type |-> StatusTypeTable[hi], raw_status |-> byte]
      ELSE [ok |-> FALSE, status_type |-> "Invalid", raw_status |-> byte]

\* ------------------------------------------------------------- EventData
\* EventData / MetaData: tag is the EventData variant, meta the MetaData
\* variant of a SysexData ("-" otherwise), v the fields in declaration order
\* (a SingleString's v is the string's code points)
EventData(tag, meta, v) == [tag |-> tag, meta |-> meta, v |-> v]

SysexData(meta, v) == EventData("SysexData", meta, v)

NoData == EventData("-", "-", <<>>)

\* the outcome of Status::parse_data: ok = FALSE when it panicked
PD(ok, f, t, p, d) == [ok |-> ok, file |-> f, track |-> t, pos |-> p, data |-> d]

\* n successive bytes.get_u8() calls
get_u8s(bs, p, n) == [i \in 1..n |-> bs[p + i]]

\* a plausible slip: every such branch reads two bytes
FixedPayload_pair(tag, meta, n, f, t, bs, p) ==
  IF remaining(bs, p) < 2
  THEN PD(FALSE, f, t, p, NoData)
  ELSE PD(TRUE, f, t, p + 2, EventData(tag, meta, get_u8s(bs, p, 2)))

\* a branch of parse_data that reads n bytes and returns them as its payload
FixedPayload(tag, meta, n, f, t, bs, p) ==
  IF remaining(bs, p) < n
  THEN PD(FALSE, f, t, p, NoData)
  ELSE PD(TRUE, f, t, p + n, EventData(tag, meta, get_u8s(bs, p, n)))

\* a plausible slip: every string-valued meta event names the track
MetaString_setsname(len, f, t, bs, p) ==
  LET s == read_str(bs, p, len)
  IN  IF ~s.ok THEN PD(FALSE, f, t, p, NoData)
      ELSE PD(TRUE, f, [t EXCEPT !.name = s.s], s.pos,
              SysexData("SingleString", s.s))

\* the string-valued meta events that have no side effect
MetaString(len, f, t, bs, p) ==
  LET s == read_str(bs, p, len)
  IN  IF ~s.ok THEN PD(FALSE, f, t, p, NoData)
      ELSE PD(TRUE, f, t, s.pos, SysexData("SingleString", s.s))

MetaTrackName(len, f, t, bs, p) ==
  LET s == read_str(bs, p, len)
  IN  IF ~s.ok THEN PD(FALSE, f, t, p, NoData)
      ELSE PD(TRUE, f, [t EXCEPT !.name = s.s], s.pos,
              SysexData("SingleString", s.s))

MetaInstrumentName(len, f, t, bs, p) ==
  LET s == read_str(bs, p, len)
  IN  IF ~s.ok THEN PD(FALSE, f, t, p, NoData)
      ELSE PD(TRUE, f, [t EXCEPT !.instrument = s.s], s.pos,
              SysexData("SingleString", s.s))

\* a plausible slip: the end of the track is not recorded
MetaEndOfTrack_unset(f, t, bs, p) ==
  PD(TRUE, f, t, p, SysexData("None", <<>>))

MetaEndOfTrack(f, t, bs, p) ==
  PD(TRUE, f, [t EXCEPT !.end_of_track = TRUE], p, SysexData("None", <<>>))

\* a plausible slip: every tempo event sets the tempo
MetaSetTempo_always(f, t, bs, p) ==
  IF remaining(bs, p) < 3 THEN PD(FALSE, f, t, p, NoData)
  ELSE LET b == get_u8s(bs, p, 3)
           tempo == BitOr(BitOr(BitOr(0, Shl32(b[1], 16)), Shl32(b[2], 8)), b[3])
       IN  IF tempo = 0
           THEN PD(FALSE, [f EXCEPT !.tempo = tempo], t, p + 3, NoData)
           ELSE PD(TRUE, [f EXCEPT !.tempo = tempo, !.bpm = 60000000 \div tempo],
                   t, p + 3, SysexData("TripleU8", b))

\* a plausible slip: the three bytes are taken low byte first
MetaSetTempo_le(f, t, bs, p) ==
  IF f.tempo = 0
  THEN IF remaining(bs, p) < 3 THEN PD(FALSE, f, t, p, NoData)
       ELSE LET b == get_u8s(bs, p, 3)
                tempo == BitOr(BitOr(BitOr(f.tempo, Shl32(b[3], 16)),
                                     Shl32(b[2], 8)), b[1])
            IN  IF tempo = 0
                THEN PD(FALSE, [f EXCEPT !.tempo = tempo], t, p + 3, NoData)
                ELSE PD(TRUE,
                        [f EXCEPT !.tempo = tempo, !.bpm = 60000000 \div tempo],
                        t, p + 3, SysexData("TripleU8", b))
  ELSE PD(TRUE, f, t, p, SysexData("None", <<>>))

\* SetTempo: the three bytes are read only while file.tempo is 0;
\* 60000000 / 0 panics
MetaSetTempo(f, t, bs, p) ==
  IF f.tempo = 0
  THEN IF remaining(bs, p) < 3 THEN PD(FALSE, f, t, p, NoData)
       ELSE LET b == get_u8s(bs, p, 3)
                tempo == BitOr(BitOr(BitOr(f.tempo, Shl32(b[1], 16)),
                                     Shl32(b[2], 8)), b[3])
            IN  IF tempo = 0
                THEN PD(FALSE, [f EXCEPT !.tempo = tempo], t, p + 3, NoData)
                ELSE PD(TRUE,
                        [f EXCEPT !.tempo = tempo, !.bpm = 60000000 \div tempo],
                        t, p + 3, SysexData("TripleU8", b))
  ELSE PD(TRUE, f, t, p, SysexData("None", <<>>))

\* TimeSignature: QuadU8(get_u8, 2 << get_u8, get_u8, get_u8), the
\* arguments evaluated left to right
MetaTimeSignature(f, t, bs, p, checked) ==
  IF remaining(bs, p) < 2 THEN PD(FALSE, f, t, p, NoData)
  ELSE LET sh == Shl8(2, bs[p + 2], checked)
       IN  IF ~sh.ok \/ remaining(bs, p) < 4 THEN PD(FALSE, f, t, p, NoData)
           ELSE PD(TRUE, f, t, p + 4,
                   SysexData("QuadU8", <<bs[p + 1], sh.value, bs[p + 3], bs[p + 4]>>))

\* the raw_status == 0xFF branch: type byte, length, then the type's payload
parse_meta(f, t, bs, p, checked) ==
  IF remaining(bs, p) = 0 THEN PD(FALSE, f, t, p, NoData)
  ELSE LET ty == bs[p + 1]
           len == read_value(bs, p + 1)
           kind == SysExMeta_from(ty)
           q == len.pos
       IN  IF ~len.ok \/ kind = "None" THEN PD(FALSE, f, t, p, NoData)
           ELSE CASE kind = "MetaSequence" ->
                       FixedPayload("SysexData", "DoubleU8", 2, f, t, bs, q)
                  [] kind = "MetaChannelPrefix" ->
                       FixedPayload("SysexData", "SingleU8", 1, f, t, bs, q)
                  [] kind \in {"MetaLyrics", "MetaCuePoint", "MetaMarker",
                               "MetaSequencerSpecific", "MetaCopyright",
                               "MetaText"} ->
                       MetaString(len.value, f, t, bs, q)
                  [] kind = "MetaTrackName" ->
                       MetaTrackName(len.value, f, t, bs, q)
                  [] kind = "MetaInstrumentName" ->
                       MetaInstrumentName(len.value, f, t, bs, q)
                  [] kind = "MetaEndOfTrack" -> MetaEndOfTrack(f, t, bs, q)
                  [] kind = "MetaSetTempo" -> MetaSetTempo(f, t, bs, q)
                  [] kind = "MetaSMPTEOffset" ->
                       FixedPayload("SysexData", "QuintripleU8", 5, f, t, bs, q)
                  [] kind = "MetaTimeSignature" ->
                       MetaTimeSignature(f, t, bs, q, checked)
                  [] kind = "MetaKeySignature" ->
                       FixedPayload("SysexData", "DoubleU8", 2, f, t, bs, q)

\* the raw_status == 0xF0 and == 0xF7 branches: length, then that many bytes
parse_sysex(f, t, bs, p) ==
  LET len == read_value(bs, p)
  IN  IF ~len.ok THEN PD(FALSE, f, t, p, NoData)
      ELSE MetaString(len.value, f, t, bs, len.pos)

\* a plausible slip: the unrecognised system byte swallows the next byte
system_other_skip(f, t, bs, p) ==
  IF remaining(bs, p) = 0 THEN PD(FALSE, f, t, p, NoData)
  ELSE PD(TRUE, f, t, p + 1, EventData("Error", "-", <<>>))

\* the final else of the SystemMsg branch: an Error payload, nothing read
system_other(f, t, bs, p) == PD(TRUE, f, t, p, EventData("Error", "-", <<>>))

\* Status::parse_data(&self, file, track, bytes)
parse_data(self, file0, t, bs, p, checked) ==
  LET f == [file0 EXCEPT !.prev_status = self.raw_status]
      ty == self.status_type
  IN  CASE ty \in {"NoteOn", "NoteOff", "PolyphonicAftertouch"} ->
             FixedPayload("NoteOnOffData", "-", 2, f, t, bs, p)
        [] ty = "CtrlChange" -> FixedPayload("ControlData", "-", 2, f, t, bs, p)
        [] ty = "ProgramChange" ->
             FixedPayload("ProgramChangeData", "-", 1, f, t, bs, p)
        [] ty = "ChannelAftertouch" ->
             FixedPayload("ChannelData", "-", 1, f, t, bs, p)
        [] ty = "PitchBendChange" ->
             FixedPayload("PitchBendData", "-", 2, f, t, bs, p)
        [] ty = "SystemMsg" ->
             LET g == [f EXCEPT !.prev_status = 0]
             IN  IF self.raw_status = 255 THEN parse_meta(g, t, bs, p, checked)
                 ELSE IF self.raw_status = 240 THEN parse_sysex(g, t, bs, p)
                 ELSE IF self.raw_status = 247 THEN parse_sysex(g, t, bs, p)
                 ELSE system_other(g, t, bs, p)


\* ----------------------------------------------------------------- state
VARIABLES
  buf,          \* the file's bytes, as read into `bytes` (parser.rs 132-138)
  pos,          \* how many of them `bytes` has consumed
  file,         \* the MidiFile the decode is called on (`self`)
  before,       \* `self` as it was when parse was called
  tracks,       \* parse's local `tracks`
  track,        \* parse's local `track`
  track_chunks, \* parse's local `track_chunks`
  chunk,        \* the number of completed iterations of `for _chunk`
  pc,           \* "start", "for" (head of the for loop), "while", "done"
  result,       \* "none" while running, then "Ok", "Err" or "panic"
  spans,        \* per track begun, per event pushed: where its bytes lie
  vlq,          \* the input and the outcome of a lone read_value call
  starts,       \* per track begun: the cursor behind its chunk header
  note          \* the input and the outcome of a lone call into note.rs

vars == <<buf, pos, file, before, tracks, track, track_chunks, chunk, pc,
          result, spans, vlq, starts, note>>

\* MidiFile::create()
create ==
  [tempo |-> 0, bpm |-> 0, tracks |-> <<>>, division |-> 0, prev_status |-> 0]

\* the MidiTrack literal of parse
NewTrack ==
  [name |-> <<>>, instrument |-> <<>>, events |-> <<>>, end_of_track |-> FALSE]

\* the MidiEvent literal of parse
MidiEvent(status, data, delta_tick) ==
  [status |-> [status_type |-> status.status_type, raw_status |-> status.raw_status],
   data |-> data, delta_tick |-> delta_tick]

\* Buf::get_u16 at cursor p (big-endian)
get_u16(bs, p) == bs[p + 1] * 256 + bs[p + 2]

\* ---------------------------------------------------------------- inputs
RECURSIVE Concat(_)
Concat(ss) == IF ss = <<>> THEN <<>> ELSE Head(ss) \o Concat(Tail(ss))

\* "MThd", length 6, format 1, n tracks, division d
Header(n, d) ==
  <<77, 84, 104, 100, 0, 0, 0, 6, 0, 1, n \div 256, n % 256, d \div 256, d % 256>>

\* "MTrk" and a declared length
TrkHdr == <<77, 84, 114, 107, 0, 0, 0, 4>>

\* delta 0, NoteOn channel 0, key 60, velocity 64
F_NoteOn == <<0, 144, 60, 64>>
\* delta 1, then key 0x45, velocity 127 with the status byte omitted
F_Running == <<1, 69, 127>>
\* delta 128 (two bytes), ProgramChange channel 1, program 5
F_Program == <<129, 0, 193, 5>>
\* delta 0, SetTempo 500000 and SetTempo 600000
F_TempoA == <<0, 255, 81, 3, 7, 161, 32>>
F_TempoB == <<0, 255, 81, 3, 9, 39, 192>>
\* delta 0, End Of Track
F_EOT == <<0, 255, 47, 0>>
\* delta 0, the undefined system byte 0xF1
F_SysErr == <<0, 241>>
\* delta 0, Track Name "Hi"
F_Name == <<0, 255, 3, 2, 72, 105>>
\* delta 0, a meta event of the unassigned type 0x60
F_UnknownMeta == <<0, 255, 96, 0>>

Fragments ==
  {F_NoteOn, F_Running, F_Program, F_TempoA, F_TempoB, F_EOT, F_SysErr,
   F_Name, F_UnknownMeta, TrkHdr}

Bodies == UNION {[1..k -> Fragments] : k \in 0..MaxChunks}

\* one-track files, each with one event of a kind the fragments lack
ExtraEvents ==
  {<<0, 128, 60, 0>>, <<0, 162, 60, 9>>, <<0, 176, 7, 100>>, <<0, 208, 33>>,
   <<0, 224, 0, 64>>, <<0, 240, 2, 126, 247>>, <<0, 247, 1, 65>>,
   <<0, 255, 0, 2, 0, 1>>, <<0, 255, 1, 3, 72, 195, 169>>,
   <<0, 255, 4, 3, 80, 255, 195>>, <<0, 255, 32, 1, 2>>,
   <<0, 255, 84, 5, 1, 2, 3, 4, 5>>, <<0, 255, 89, 2, 1, 0>>,
   <<0, 255, 81, 3, 0, 0, 0>>, <<0, 255, 127, 1, 9>>, <<0, 96, 1>>}

\* a Time Signature event for every raw denominator byte
TimeSigEvents == {<<0, 255, 88, 4, 6, d, 24, 8>> : d \in 0..255}

\* for a voice status byte s: an event with two data bytes or with one, and
\* behind it, at delta 1, data bytes without a status byte
VoiceEvents(s) ==
  {<<0, s, 60, 64, 1, 69, 127>>, <<0, s, 60, 64, 1, 69, 127, 2>>,
   <<0, s, 60, 1, 69>>, <<0, s, 60, 1, 69, 127>>}

\* one-track files with every voice status byte, explicit and then omitted
VoiceFiles ==
  {Header(1, 96) \o TrkHdr \o e : e \in UNION {VoiceEvents(s) : s \in 128..239}}

\* one track with a Track Name, every string-valued meta type, an Instrument
\* Name, a second Track Name and End Of Track
MetaFile ==
  Header(1, 96) \o TrkHdr \o F_Name \o <<0, 255, 1, 3, 72, 195, 169>>
  \o <<0, 255, 2, 1, 67>> \o <<0, 255, 4, 3, 80, 255, 195>>
  \o <<0, 255, 5, 1, 76>> \o <<0, 255, 6, 1, 77>> \o <<0, 255, 3, 1, 66>>
  \o <<0, 255, 7, 2, 81, 33>> \o <<0, 255, 127, 1, 9>> \o F_EOT

\* one track: a NoteOn, data bytes without a status byte, the undefined system
\* byte 0xF1, End Of Track
ProgressFile ==
  Header(1, 96) \o TrkHdr \o F_NoteOn \o <<1, 69, 127, 2>> \o F_SysErr \o F_EOT

\* the file an earlier, successful call of parse on the same MidiFile read
EarlierFile == Header(1, 480) \o TrkHdr \o F_TempoA \o F_NoteOn

\* two tracks: a NoteOn and End Of Track, then a track whose first event
\* omits its status byte
TwoTrackFile ==
  Header(2, 96) \o TrkHdr \o F_NoteOn \o F_EOT \o TrkHdr \o F_Running \o F_EOT

InputFiles ==
  {Header(n, 96) \o TrkHdr \o Concat(b) : n \in 1..MaxTracks, b \in Bodies}
  \cup {Header(1, 96) \o TrkHdr \o e \o F_EOT : e \in ExtraEvents \cup TimeSigEvents}
  \cup VoiceFiles
  \cup {Header(0, 96), <<77, 84, 104, 100>>, Header(1, 96), EarlierFile,
        TwoTrackFile, MetaFile}

\* the MidiFile a successful parse of EarlierFile leaves behind
Reused ==
  [tempo |-> 500000, bpm |-> 120, division |-> 480, prev_status |-> 144,
   tracks |-> <<[name |-> <<>>, instrument |-> <<>>, end_of_track |-> FALSE,
                 events |-> <<
                   MidiEvent([status_type |-> "SystemMsg", raw_status |-> 255],
                             SysexData("TripleU8", <<7, 161, 32>>), 0),
                   MidiEvent([status_type |-> "NoteOn", raw_status |-> 144],
                             EventData("NoteOnOffData", "-", <<60, 64>>), 0)>>]>>]

\* parse is called on a new MidiFile or on one an earlier call has filled
PriorFiles == {create, Reused}

\* no call into note.rs is under way
\* ---- note.rs ----

\* u32 values are kept as two 16-bit limbs, so that sums up to the full
\* width stay within the checker's integers
Limb == 2^16

U32Of(k) == [hi |-> k \div Limb, lo |-> k % Limb]

\* 12 * n in u32: the wrapped product and whether it overflowed
wrapping_mul12(n) ==
  LET lo == 12 * (n % Limb)
      hi == 12 * (n \div Limb) + lo \div Limb
  IN  [hi |-> hi % Limb, lo |-> lo % Limb, over |-> hi \div Limb # 0]

\* w + b in u32 for a small b
wrapping_add(w, b) ==
  LET lo == w.lo + b
      hi == w.hi + lo \div Limb
  IN  [hi |-> hi % Limb, lo |-> lo % Limb, over |-> hi \div Limb # 0]

\* `as i8` of a value: its low eight bits, read as signed
AsI8(q) == LET low == q % U8 IN IF low >= 128 THEN low - U8 ELSE low

\* enum Notes, the discriminants
Notes ==
  [C |-> 12, CSharp |-> 13, D |-> 14, DSharp |-> 15, E |-> 16, F |-> 17,
   FSharp |-> 18, G |-> 19, GSharp |-> 20, A |-> 21, ASharp |-> 22, B |-> 23]

\* Notes::from, the match on modulo (arm m is entry m + 1)
NotesByModulo ==
  <<"C", "CSharp", "D", "DSharp", "E", "F", "FSharp", "G", "GSharp", "A",
    "ASharp", "B">>

NoFrom == [tag |-> "-", pitch |-> "", octave |-> 0]

NoOctave == [tag |-> "-", value |-> U32Of(0)]

\* a plausible slip: the octave is not shifted down by one
Notes_from_unshifted(n, checked) ==
  LET modulo == n % 12
      octave_raw == AsI8((n - modulo) \div 12)
  IN  IF octave_raw < 0
      THEN [NoFrom EXCEPT !.tag = "None"]
      ELSE [tag |-> "Some", pitch |-> NotesByModulo[modulo + 1],
            octave |-> octave_raw]

\* Notes::from(n).  Below 12 the subtraction of 1 overflows: a checked build
\* panics, an unchecked one wraps to all ones, which is -1 as i8.
Notes_from(n, checked) ==
  LET modulo == n % 12
      quot == (n - modulo) \div 12
      octave_raw == IF quot = 0 THEN AsI8(U8 - 1) ELSE AsI8(quot - 1)
  IN  IF quot = 0 /\ checked
      THEN [NoFrom EXCEPT !.tag = "panic"]
      ELSE IF octave_raw < 0
      THEN [NoFrom EXCEPT !.tag = "None"]
      ELSE [tag |-> "Some", pitch |-> NotesByModulo[modulo + 1],
            octave |-> octave_raw]

\* Notes::octave(self, n): self as u32 + 12 * n, at least 21 or an error.  An
\* overflow of the product or of the sum panics in a checked build and wraps
\* in an unchecked one.
Notes_octave(self, n, checked) ==
  LET prod == wrapping_mul12(n)
      octaved == wrapping_add(prod, Notes[self])
  IN  IF checked /\ (prod.over \/ octaved.over)
      THEN [NoOctave EXCEPT !.tag = "panic"]
      ELSE IF octaved.hi = 0 /\ octaved.lo < 21
      THEN [NoOctave EXCEPT !.tag = "Err"]
      ELSE [tag |-> "Ok", value |-> [hi |-> octaved.hi, lo |-> octaved.lo]]

\* the slot of SpecNote: a call of Notes::from followed by Notes::octave on
\* its result (trip), or a lone call of Notes::octave
NoNote ==
  [pc |-> "-", trip |-> FALSE, n |-> 0, pitch |-> "", oct |-> 0,
   from |-> NoFrom, octave |-> NoOctave]

NoVlq == [v |-> 0, out |-> [ok |-> FALSE, value |-> 0, pos |-> 0], done |-> FALSE]

Init ==
  /\ buf \in InputFiles
  /\ file \in PriorFiles
  /\ before = file
  /\ pos = 0
  /\ tracks = <<>>
  /\ track = NewTrack
  /\ track_chunks = 0
  /\ chunk = 0
  /\ pc = "start"
  /\ result = "none"
  /\ spans = <<>>
  /\ vlq = NoVlq
  /\ starts = <<>>
  /\ note = NoNote

\* --------------------------------------------------------------- actions
\* parse, lines 140-147: the header chunk
ReadHeader ==
  /\ pc = "start" /\ result = "none"
  /\ IF remaining(buf, pos) < 14
     THEN /\ result' = "panic"
          /\ UNCHANGED <<pos, file, tracks, track_chunks, pc>>
     ELSE /\ pos' = pos + 14
          /\ track_chunks' = get_u16(buf, pos + 10)
          /\ file' = [file EXCEPT !.division = get_u16(buf, pos + 12)]
          /\ tracks' = <<>>
          /\ pc' = "for"
          /\ UNCHANGED result
  /\ UNCHANGED <<buf, before, track, chunk, spans, vlq, starts, note>>

\* a plausible slip: the running status of the last track is kept
BeginTrack_keep ==
  /\ pc = "for" /\ result = "none" /\ chunk < track_chunks
  /\ IF remaining(buf, pos) < 8
     THEN /\ result' = "panic"
          /\ UNCHANGED <<pos, track, file, pc, spans, starts>>
     ELSE /\ pos' = pos + 8
          /\ track' = NewTrack
          /\ pc' = "while"
          /\ spans' = Append(spans, <<>>)
          /\ starts' = Append(starts, pos + 8)
          /\ UNCHANGED <<result, file>>
  /\ UNCHANGED <<buf, before, tracks, track_chunks, chunk, vlq, note>>

\* parse, lines 148-159: the track chunk's id and length, a new track
BeginTrack ==
  /\ pc = "for" /\ result = "none" /\ chunk < track_chunks
  /\ IF remaining(buf, pos) < 8
     THEN /\ result' = "panic"
          /\ UNCHANGED <<pos, track, file, pc, spans, starts>>
     ELSE /\ pos' = pos + 8
          /\ track' = NewTrack
          /\ file' = [file EXCEPT !.prev_status = 0]
          /\ pc' = "while"
          /\ spans' = Append(spans, <<>>)
          /\ starts' = Append(starts, pos + 8)
          /\ UNCHANGED result
  /\ UNCHANGED <<buf, before, tracks, track_chunks, chunk, vlq, note>>

\* the outcome of one iteration of the while loop
Iter(res, f, t, p, span) ==
  [result |-> res, file |-> f, track |-> t, pos |-> p, span |-> span]

NoSpan == [start |-> 0, st_at |-> 0, data_at |-> 0, end |-> 0]

\* a plausible slip: after an inline Error event the cursor is put back to
\* where the iteration began
loop_body_retry(f, t, bs, p, checked) ==
  LET delta == read_value(bs, p)
  IN  IF ~delta.ok \/ remaining(bs, delta.pos) = 0
      THEN Iter("panic", f, t, p, NoSpan)
      ELSE LET first == bs[delta.pos + 1]
               status == IF first < 128 THEN f.prev_status ELSE first
               q == delta.pos + 1
               st == from_byte(status)
           IN  IF ~st.ok THEN Iter("Err", f, t, p, NoSpan)
               ELSE LET d == parse_data(st, f, t, bs, q, checked)
                        end == IF d.data.tag = "Error" THEN p ELSE d.pos
                    IN  IF ~d.ok THEN Iter("panic", d.file, t, p, NoSpan)
                        ELSE Iter("none", d.file,
                                  [d.track EXCEPT !.events =
                                     Append(@, MidiEvent(st, d.data, delta.value))],
                                  end,
                                  [start |-> p, st_at |-> delta.pos, data_at |-> q,
                                   end |-> end])

\* parse, lines 161-178: one iteration of the while loop.  `split` is cloned
\* from `bytes` after get_u8 has advanced it, so `bytes = split` leaves the
\* cursor behind the byte just read.
loop_body(f, t, bs, p, checked) ==
  LET delta == read_value(bs, p)
  IN  IF ~delta.ok \/ remaining(bs, delta.pos) = 0
      THEN Iter("panic", f, t, p, NoSpan)
      ELSE LET first == bs[delta.pos + 1]
               split == delta.pos + 1
               status == IF first < 128 THEN f.prev_status ELSE first
               q == IF first < 128 THEN split ELSE delta.pos + 1
               st == from_byte(status)
           IN  IF ~st.ok THEN Iter("Err", f, t, p, NoSpan)
               ELSE LET d == parse_data(st, f, t, bs, q, checked)
                    IN  IF ~d.ok THEN Iter("panic", d.file, t, p, NoSpan)
                        ELSE Iter("none", d.file,
                                  [d.track EXCEPT !.events =
                                     Append(@, MidiEvent(st, d.data, delta.value))],
                                  d.pos,
                                  [start |-> p, st_at |-> delta.pos, data_at |-> q,
                                   end |-> d.pos])

\* parse, lines 160-179: the while loop's test and one iteration
DecodeEvent ==
  /\ pc = "while" /\ result = "none"
  /\ remaining(buf, pos) # 0 /\ ~track.end_of_track
  /\ \E checked \in BOOLEAN :
       LET it == loop_body(file, track, buf, pos, checked)
       IN  /\ result' = it.result
           /\ file' = it.file
           /\ track' = it.track
           /\ pos' = it.pos
           /\ spans' = IF it.result = "none"
                       THEN [spans EXCEPT ![Len(spans)] = Append(@, it.span)]
                       ELSE spans
  /\ UNCHANGED <<buf, before, tracks, track_chunks, chunk, pc, vlq, starts, note>>

\* a plausible slip: a track that ends without End Of Track is an error
EndTrack_strict ==
  /\ pc = "while" /\ result = "none"
  /\ ~(remaining(buf, pos) # 0 /\ ~track.end_of_track)
  /\ IF track.end_of_track
     THEN /\ tracks' = Append(tracks, track)
          /\ chunk' = chunk + 1
          /\ pc' = "for"
          /\ UNCHANGED result
     ELSE /\ result' = "Err"
          /\ UNCHANGED <<tracks, chunk, pc>>
  /\ UNCHANGED <<buf, pos, file, before, track, track_chunks, spans, vlq,
                 starts, note>>

\* a plausible slip: the loop also ends where the chunk's declared length
\* (its two low bytes) ends
EndTrack_declared ==
  /\ pc = "while" /\ result = "none"
  /\ ~(/\ remaining(buf, pos) # 0 /\ ~track.end_of_track
        /\ pos < starts[Len(starts)] + get_u16(buf, starts[Len(starts)] - 2))
  /\ tracks' = Append(tracks, track)
  /\ chunk' = chunk + 1
  /\ pc' = "for"
  /\ UNCHANGED <<buf, pos, file, before, track, track_chunks, result, spans,
                 vlq, starts, note>>

\* parse, lines 160 and 181: the while loop ends, the track is pushed
EndTrack ==
  /\ pc = "while" /\ result = "none"
  /\ ~(remaining(buf, pos) # 0 /\ ~track.end_of_track)
  /\ tracks' = Append(tracks, track)
  /\ chunk' = chunk + 1
  /\ pc' = "for"
  /\ UNCHANGED <<buf, pos, file, before, track, track_chunks, result, spans, vlq,
                 starts, note>>

\* parse, lines 184-185: the for loop ends
Finish ==
  /\ pc = "for" /\ result = "none" /\ chunk = track_chunks
  /\ file' = [file EXCEPT !.tracks = tracks]
  /\ result' = "Ok"
  /\ pc' = "done"
  /\ UNCHANGED <<buf, pos, before, tracks, track, track_chunks, chunk, spans, vlq,
                 starts, note>>

Next == ReadHeader \/ BeginTrack \/ DecodeEvent \/ EndTrack \/ Finish

Spec == Init /\ [][Next]_vars

\* ---- the decode under fairness ----

LiveChunks == 2

\* the fragments that make the loop take each of its paths
LiveFragments ==
  {F_NoteOn, F_Running, F_Program, F_EOT, F_SysErr, F_UnknownMeta, TrkHdr}

LiveBodies == UNION {[1..k -> LiveFragments] : k \in 0..LiveChunks}

LiveFiles ==
  {Header(n, 96) \o TrkHdr \o Concat(b) : n \in 1..MaxTracks, b \in LiveBodies}
  \cup {Header(0, 96), <<77, 84, 104, 100>>, Header(1, 96), TwoTrackFile,
        ProgressFile, EarlierFile, MetaFile,
        Header(1, 96) \o TrkHdr \o F_TempoA \o F_TempoB \o F_EOT}

InitLive ==
  /\ buf \in LiveFiles
  /\ file \in PriorFiles
  /\ before = file
  /\ pos = 0
  /\ tracks = <<>>
  /\ track = NewTrack
  /\ track_chunks = 0
  /\ chunk = 0
  /\ pc = "start"
  /\ result = "none"
  /\ spans = <<>>
  /\ vlq = NoVlq
  /\ starts = <<>>
  /\ note = NoNote

\* parse is one sequential call: it keeps taking steps until it returns or
\* panics
SpecLive == InitLive /\ [][Next]_vars /\ WF_vars(Next)


\* ------------------------------------------- a lone call of read_value
RECURSIVE VlqHigh(_)
\* the leading bytes of a variable-length quantity: 7 bits each, high bit set
VlqHigh(v) == IF v = 0 THEN <<>> ELSE VlqHigh(v \div 128) \o <<128 + (v % 128)>>

\* the standard MIDI variable-length encoding of v
VlqEncode(v) == VlqHigh(v \div 128) \o <<v % 128>>

\* how far around each length boundary the encoded values are taken
VlqSpan == 8

VlqValues ==
  {v \in UNION {{b - d, b + d} : b \in {0, 128, 16384, 2097152, 2^28 - 1},
                                 d \in 0..VlqSpan} : v >= 0 /\ v <= 2^28 - 1}

\* what follows the encoding in the buffer
VlqTails == {<<>>, <<0>>, <<129, 0>>}

InitVlq ==
  /\ \E v \in VlqValues, tail \in VlqTails :
       /\ buf = VlqEncode(v) \o tail
       /\ vlq = [v |-> v, out |-> NoVlq.out, done |-> FALSE]
  /\ file = create
  /\ before = file
  /\ pos = 0
  /\ tracks = <<>>
  /\ track = NewTrack
  /\ track_chunks = 0
  /\ chunk = 0
  /\ pc = "start"
  /\ result = "none"
  /\ spans = <<>>
  /\ starts = <<>>
  /\ note = NoNote

\* read_value(&mut bytes) on the buffer
VlqRead ==
  /\ ~vlq.done
  /\ LET out == read_value(buf, pos)
     IN  /\ vlq' = [vlq EXCEPT !.out = out, !.done = TRUE]
         /\ pos' = out.pos
  /\ UNCHANGED <<buf, file, before, tracks, track, track_chunks, chunk, pc,
                 result, spans, starts, note>>

NextVlq == VlqRead

SpecVlq == InitVlq /\ [][NextVlq]_vars

\* ---- the note helper on its own ----

NoteRange == 140

OctaveMax == 10

\* note numbers handed to Notes::from: every small one, and two whose
\* quotient does not fit i8
NoteInputs == 0..NoteRange \cup {1548, 3084}

\* octaves handed to Notes::octave: the small ones, one whose sum needs the
\* top bit, and the first two past the width of u32
OctaveInputs == 0..OctaveMax \cup {178956970, 357913941, 357913942}

InitNote ==
  /\ \/ \E n \in NoteInputs :
          note = [NoNote EXCEPT !.pc = "from", !.trip = TRUE, !.n = n]
     \/ \E p \in DOMAIN Notes, n \in OctaveInputs :
          note = [NoNote EXCEPT !.pc = "octave", !.pitch = p, !.oct = n]
  /\ buf = <<>>
  /\ vlq = NoVlq
  /\ file = create
  /\ before = file
  /\ pos = 0
  /\ tracks = <<>>
  /\ track = NewTrack
  /\ track_chunks = 0
  /\ chunk = 0
  /\ pc = "start"
  /\ result = "none"
  /\ spans = <<>>
  /\ starts = <<>>

\* Notes::from(n)
CallFrom ==
  /\ note.pc = "from"
  /\ \E checked \in BOOLEAN :
       LET out == Notes_from(note.n, checked)
       IN  note' = IF out.tag = "Some"
                   THEN [note EXCEPT !.from = out, !.pitch = out.pitch,
                                     !.oct = out.octave, !.pc = "octave"]
                   ELSE [note EXCEPT !.from = out, !.pc = "done"]
  /\ UNCHANGED <<buf, pos, file, before, tracks, track, track_chunks, chunk,
                 pc, result, spans, vlq, starts>>

\* pitch.octave(octave)
CallOctave ==
  /\ note.pc = "octave"
  /\ \E checked \in BOOLEAN :
       note' = [note EXCEPT !.octave = Notes_octave(note.pitch, note.oct, checked),
                            !.pc = "done"]
  /\ UNCHANGED <<buf, pos, file, before, tracks, track, track_chunks, chunk,
                 pc, result, spans, vlq, starts>>

NextNote == CallFrom \/ CallOctave

SpecNote == InitNote /\ [][NextNote]_vars

\* ------------------------------------------------------ reading a state
\* the tracks begun so far, in order; the last one may still be in its loop
Decoded == IF Len(spans) > Len(tracks) THEN Append(tracks, track) ELSE tracks

\* <<k, i>>: the i-th event of the k-th track
EventIds ==
  UNION {{<<k, i>> : i \in 1..Len(Decoded[k].events)} : k \in 1..Len(Decoded)}

Ev(e) == Decoded[e[1]].events[e[2]]
Sp(e) == spans[e[1]][e[2]]

\* the byte the loop read where a status byte stands
StatusByte(e) == buf[Sp(e).st_at + 1]

\* the event's status byte was omitted
Implicit(e) == StatusByte(e) < 128

\* the event is a meta event of type ty
IsMeta(e, ty) == StatusByte(e) = 255 /\ buf[Sp(e).st_at + 2] = ty

Earlier(e, o) == e[1] < o[1] \/ (e[1] = o[1] /\ e[2] < o[2])

\* an iteration of the while loop has failed; pos is where it started
FailedInLoop == pc = "while" /\ result \in {"Err", "panic"}

\* at cursor p stand a delta-time and a byte in the set S
StatusAt(p, S) ==
  LET delta == read_value(buf, p)
  IN  delta.ok /\ remaining(buf, delta.pos) >= 1 /\ buf[delta.pos + 1] \in S

\* at cursor p stand a delta-time, 0xFF, the type ty and a length
MetaAt(p, ty) ==
  LET delta == read_value(buf, p)
  IN  /\ delta.ok /\ remaining(buf, delta.pos) >= 2
      /\ buf[delta.pos + 1] = 255 /\ buf[delta.pos + 2] = ty
      /\ read_value(buf, delta.pos + 2).ok

\* the cursor behind a meta event's length field
PayloadAt(e) == read_value(buf, Sp(e).st_at + 2).pos

VoiceStatus == 128..239

\* the MidiFile object parse of EarlierFile leaves is the one PriorFiles names
ReusedIsReached ==
  (buf = EarlierFile /\ before = create /\ result # "none")
    => (result = "Ok" /\ [file EXCEPT !.tracks = tracks] = Reused
        /\ file.tracks = Reused.tracks)


\* ---------------------------------------------------------------- claims

\* the example stream of C1 as the only track of a file
RunningExample == Header(1, 96) \o TrkHdr \o <<0, 144, 60, 64, 1, 69, 127>>

\* C1: an event whose status byte is omitted after a voice event is decoded
\* with that event's category and raw status, and the byte found in the
\* status byte's place is its first payload byte; the example stream decodes
\* to NoteOn (60, 64) and NoteOn (0x45, 127) with the cursor at its end.
RunningStatusPutsByteBack ==
  /\ \A e \in EventIds :
       (Implicit(e) /\ e[2] > 1
          /\ Ev(<<e[1], e[2] - 1>>).status.raw_status \in VoiceStatus)
       => /\ Ev(e).status = Ev(<<e[1], e[2] - 1>>).status
          /\ Len(Ev(e).data.v) >= 1
          /\ Ev(e).data.v[1] = StatusByte(e)
  /\ (buf = RunningExample /\ result # "none")
       => /\ result = "Ok"
          /\ pos = Len(buf)
          /\ Len(file.tracks) = 1
          /\ file.tracks[1].events =
               <<MidiEvent([status_type |-> "NoteOn", raw_status |-> 144],
                           EventData("NoteOnOffData", "-", <<60, 64>>), 0),
                 MidiEvent([status_type |-> "NoteOn", raw_status |-> 144],
                           EventData("NoteOnOffData", "-", <<69, 127>>), 1)>>

\* the SetTempo events decoded so far, and the first of them
TempoEvents == {e \in EventIds : IsMeta(e, 81)}

FirstTempo ==
  CHOOSE e \in TempoEvents : \A o \in TempoEvents : o = e \/ Earlier(e, o)

\* the 24-bit big-endian value of the three bytes at cursor p
Be24(p) == buf[p + 1] * 65536 + buf[p + 2] * 256 + buf[p + 3]

\* C2: once the tempo is set (by the first SetTempo event of the file, or
\* before the call) no later SetTempo event changes tempo or bpm, and every
\* later SetTempo event is appended to its track with the payload None.
TempoSetOnce ==
  /\ \A e \in TempoEvents :
       (before.tempo # 0 \/ e # FirstTempo) => Ev(e).data = SysexData("None", <<>>)
  /\ before.tempo # 0 => (file.tempo = before.tempo /\ file.bpm = before.bpm)
  /\ (before.tempo = 0 /\ TempoEvents # {})
       => /\ file.tempo = Be24(PayloadAt(FirstTempo))
          /\ file.bpm = 60000000 \div file.tempo
  /\ (FailedInLoop /\ file.tempo # 0) => ~MetaAt(pos, 81)

\* C2 witness: a second SetTempo event with other bytes has been appended
TempoSetOnceWitness ==
  /\ before.tempo = 0 /\ result = "none"
  /\ \E e \in TempoEvents :
       /\ e # FirstTempo
       /\ Ev(e).data = SysexData("None", <<>>)
       /\ remaining(buf, PayloadAt(e)) >= 3
       /\ Be24(PayloadAt(e)) # Be24(PayloadAt(FirstTempo))
       /\ file.tempo = Be24(PayloadAt(FirstTempo))

\* C3: every SetTempo event, also one met after the tempo is set, leaves
\* the cursor behind its three payload bytes.
SetTempoConsumesPayload ==
  \A e \in TempoEvents : Sp(e).end = PayloadAt(e) + 3

\* C4: an End Of Track event is appended, sets end_of_track and is the last
\* event of its track; no byte behind it is decoded as an event of the track.
EndOfTrackIsLast ==
  /\ \A k \in 1..Len(Decoded) :
       LET t == Decoded[k]
           n == Len(t.events)
       IN  /\ \A i \in 1..n :
                IsMeta(<<k, i>>, 47)
                => (i = n /\ t.end_of_track
                    /\ t.events[i].data = SysexData("None", <<>>))
           /\ t.end_of_track => (n >= 1 /\ IsMeta(<<k, n>>, 47))
           /\ \A e \in EventIds :
                (e[1] = k /\ n >= 1 /\ t.end_of_track) => Sp(e).end <= Sp(<<k, n>>).end
  /\ FailedInLoop => ~MetaAt(pos, 47)

\* C4 witness: a track has ended at its End Of Track event with bytes left
EndOfTrackWitness ==
  \E k \in 1..Len(tracks) :
    /\ tracks[k].end_of_track
    /\ Len(tracks[k].events) >= 2
    /\ remaining(buf, Sp(<<k, Len(tracks[k].events)>>).end) > 0

\* C5: at the first event of every track the running status is none (0),
\* so no first event of a track is decoded with an omitted status byte.
RunningStatusResetPerTrack ==
  /\ (pc = "while" /\ result = "none" /\ track.events = <<>>)
       => file.prev_status = 0
  /\ \A k \in 1..Len(Decoded) :
       Len(Decoded[k].events) >= 1 => ~Implicit(<<k, 1>>)

\* C5 witness: the second track starts with an omitted status byte after a
\* first track that held a voice event
RunningStatusResetWitness ==
  /\ pc = "while" /\ result = "none" /\ track.events = <<>>
  /\ Len(tracks) = 1
  /\ \E i \in 1..Len(tracks[1].events) :
       tracks[1].events[i].status.raw_status \in VoiceStatus
  /\ StatusAt(pos, 0..127)

\* the system bytes that are neither sysex (0xF0, 0xF7) nor meta (0xFF)
OtherSystemBytes == (241..254) \ {247}

\* C6: a status byte in 0xF1..0xFE other than 0xF7 gives one event with an
\* Error payload, reads no payload byte and does not end the decode: the
\* next event starts at the byte behind the status byte.
SystemByteIsRecovered ==
  /\ \A e \in EventIds :
       StatusByte(e) \in OtherSystemBytes
       => /\ Ev(e).data = EventData("Error", "-", <<>>)
          /\ Ev(e).status = [status_type |-> "SystemMsg", raw_status |-> StatusByte(e)]
          /\ Sp(e).end = Sp(e).st_at + 1
          /\ e[2] < Len(Decoded[e[1]].events)
               => Sp(<<e[1], e[2] + 1>>).start = Sp(e).st_at + 1
  /\ FailedInLoop => ~StatusAt(pos, OtherSystemBytes)

\* C6 witness: an event has been decoded behind an Error event
SystemByteWitness ==
  \E e \in EventIds :
    /\ StatusByte(e) \in OtherSystemBytes
    /\ e[2] < Len(Decoded[e[1]].events)
    /\ Ev(<<e[1], e[2] + 1>>).data.tag # "Error"

\* C7: when parse fails, the file's tracks, division, tempo and bpm are as
\* they were before the call.
FailureLeavesFileUntouched ==
  result \in {"Err", "panic"}
  => /\ file.tracks = before.tracks
     /\ file.division = before.division
     /\ file.tempo = before.tempo
     /\ file.bpm = before.bpm

\* C8: an omitted status byte while the running status is none - at the
\* first event of a track or behind a system message - makes parse return
\* an error, and no event is appended for it.
UnresolvedRunningStatusFails ==
  /\ \A e \in EventIds :
       Implicit(e)
       => (e[2] > 1 /\ Ev(<<e[1], e[2] - 1>>).status.raw_status \in VoiceStatus)
  /\ (FailedInLoop /\ StatusAt(pos, 0..127) /\ file.prev_status = 0)
       => result = "Err"
  /\ result = "Err"
       => /\ FailedInLoop /\ StatusAt(pos, 0..127) /\ file.prev_status = 0
          /\ (track.events = <<>>
              \/ track.events[Len(track.events)].status.raw_status >= 240)

\* C8 witness: parse has returned an error behind a system message
UnresolvedRunningStatusWitness ==
  /\ result = "Err"
  /\ track.events # <<>>
  /\ track.events[Len(track.events)].status.raw_status = 255

\* C9: read_value returns v from the standard encoding of v, for v up to
\* 2^28 - 1, and consumes exactly the encoding: one byte when v < 0x80.
VlqRoundTrip ==
  vlq.done
  => /\ vlq.out.ok
     /\ vlq.out.value = vlq.v
     /\ vlq.out.pos = Len(VlqEncode(vlq.v))
     /\ pos = vlq.out.pos
     /\ vlq.v < 128 => vlq.out.pos = 1

\* C9 witness: the largest value has been read from its four bytes
VlqRoundTripWitness ==
  vlq.done /\ vlq.v = 2^28 - 1 /\ vlq.out.pos = 4 /\ remaining(buf, pos) > 0

\* the Time Signature events decoded so far
TimeSigEventIds == {e \in EventIds : IsMeta(e, 88)}

\* C10: a Time Signature event with the bytes (n, d, c, b) is decoded to
\* the payload (n, 2 << d, c, b), an 8-bit value for every d in 0..255.
TimeSignatureShift ==
  /\ \A e \in TimeSigEventIds :
       LET q == PayloadAt(e)
           d == buf[q + 2]
       IN  /\ Ev(e).data.meta = "QuadU8"
           /\ Ev(e).data.v[1] = buf[q + 1]
           /\ Ev(e).data.v[3] = buf[q + 3]
           /\ Ev(e).data.v[4] = buf[q + 4]
           \* 2 << d is 2^(d+1): an 8-bit value only up to d = 6
           /\ d <= 6
           /\ Ev(e).data.v[2] = 2 * 2^d
  /\ FailedInLoop
       => ~(MetaAt(pos, 88)
            /\ remaining(buf, read_value(buf, read_value(buf, pos).pos + 2).pos) >= 4)


\* the cursor behind the last event of track k (behind its header if none)
TrackEnd(k) ==
  IF spans[k] = <<>> THEN starts[k] ELSE spans[k][Len(spans[k])].end

\* C11: a track whose bytes run out at an event boundary without an End Of
\* Track event ends its loop without error: it is kept with end_of_track
\* FALSE and every event decoded, and when it is the last declared track
\* parse succeeds.
TrackWithoutEndStops ==
  /\ FailedInLoop => remaining(buf, pos) # 0
  /\ \A k \in 1..Len(tracks) :
       ~tracks[k].end_of_track
       => /\ TrackEnd(k) = Len(buf)
          /\ Len(tracks[k].events) = Len(spans[k])
  /\ (result \in {"Err", "panic"} /\ pc = "for") => chunk < track_chunks
  /\ (result = "none" /\ pc = "for" /\ chunk = track_chunks) => ENABLED Finish
  /\ result = "Ok" => (file.tracks = tracks /\ Len(tracks) = track_chunks)

\* C11 witness: parse has succeeded and its last track has events but no
\* End Of Track
TrackWithoutEndWitness ==
  /\ result = "Ok" /\ pos = Len(buf)
  /\ Len(file.tracks) >= 1
  /\ ~file.tracks[Len(file.tracks)].end_of_track
  /\ Len(file.tracks[Len(file.tracks)].events) >= 2


\* C12: for every note number n from 21 to 127, Notes::from(n) is Some of a
\* pitch and an octave, and that pitch's octave(octave) is Ok(n).
NoteRoundTrip ==
  (note.trip /\ note.n \in 21..127)
  => /\ note.pc # "from" => note.from.tag = "Some"
     /\ note.pc = "done" => note.octave = [tag |-> "Ok", value |-> U32Of(note.n)]

\* C12 witness: the round trip of the highest note number has been made
NoteRoundTripWitness ==
  /\ note.trip /\ note.pc = "done" /\ note.n = 127
  /\ note.from = [tag |-> "Some", pitch |-> "G", octave |-> 9]
  /\ note.octave.tag = "Ok"

\* the u32 v is b + 12 * n, stated without forming the product: 2^16 is
\* 12 * 5461 + 4
IsSum(v, b, n) ==
  LET rest == 4 * v.hi + v.lo - b
  IN  rest % 12 = 0 /\ 5461 * v.hi + rest \div 12 = n

\* C13: for every pitch class p and octave n, p.octave(n) is Ok of p's base
\* value plus 12 * n when that sum is at least 21, and an error otherwise.
OctaveMapping ==
  (~note.trip /\ note.pc = "done")
  => IF note.oct >= 1 \/ Notes[note.pitch] >= 21
     THEN /\ note.octave.tag = "Ok"
          /\ IsSum(note.octave.value, Notes[note.pitch], note.oct)
     ELSE note.octave.tag = "Err"


\* at cursor p stand a delta-time, 0xFF and a type byte that is none of the
\* fifteen recognised ones
UnknownMetaAt(p) ==
  LET delta == read_value(buf, p)
  IN  /\ delta.ok /\ remaining(buf, delta.pos) >= 2
      /\ buf[delta.pos + 1] = 255
      /\ buf[delta.pos + 2] \notin DOMAIN SysExMetaTable

\* C14: a meta event whose type byte is not a recognised one ends the decode
\* with a failure: no event is appended for it and nothing behind it is
\* decoded.
UnknownMetaAborts ==
  /\ \A e \in EventIds : ~UnknownMetaAt(Sp(e).start)
  /\ (FailedInLoop /\ UnknownMetaAt(pos)) => result = "panic"
  /\ (pc = "while" /\ UnknownMetaAt(pos) /\ ~track.end_of_track)
     => \A k \in 1..Len(spans) : \A i \in 1..Len(spans[k]) :
          spans[k][i].end <= pos
  /\ result # "none" => ~ENABLED Next

\* C14 witness: the decode has failed at an unrecognised meta type that
\* follows decoded events
UnknownMetaWitness ==
  /\ FailedInLoop /\ result = "panic" /\ UnknownMetaAt(pos)
  /\ track.events # <<>>
  /\ \E i \in 1..Len(track.events) : spans[Len(spans)][i].end = pos


\* the number of data bytes of a voice status byte, by its top nibble
VoiceSize(s) == IF s \div 16 \in {12, 13} THEN 1 ELSE 2

\* the EventData variant of a voice status byte, by its top nibble
VoiceTag(s) ==
  CASE s \div 16 \in {8, 9, 10} -> "NoteOnOffData"
    [] s \div 16 = 11 -> "ControlData"
    [] s \div 16 = 12 -> "ProgramChangeData"
    [] s \div 16 = 13 -> "ChannelData"
    [] s \div 16 = 14 -> "PitchBendData"

\* C15: decoding a voice event's payload consumes exactly two bytes for
\* NoteOff, NoteOn, PolyphonicAftertouch, ControlChange and PitchBend and
\* exactly one for ProgramChange and ChannelAftertouch, on every channel and
\* whether the status byte was written or taken from running status; the
\* payload's fields are those bytes in wire order.
VoicePayloadSize ==
  \A e \in EventIds :
    LET s == Ev(e).status.raw_status
        at == Sp(e).data_at
    IN  s \in VoiceStatus
        => /\ Sp(e).end = at + VoiceSize(s)
           /\ Ev(e).data.tag = VoiceTag(s)
           /\ Ev(e).data.v = [i \in 1..VoiceSize(s) |-> buf[at + i]]
           /\ Ev(e).status.status_type = StatusTypeTable[s - (s % 16)]

\* C15 witness: a decode has succeeded with a ProgramChange on channel 15
\* written out and another taken from running status, one data byte each
VoicePayloadWitness ==
  /\ result = "Ok"
  /\ \E e, o \in EventIds :
       /\ ~Implicit(e) /\ Implicit(o) /\ Earlier(e, o)
       /\ Ev(e).status.raw_status = 207 /\ Ev(o).status.raw_status = 207
       /\ Sp(e).end = Sp(e).data_at + 1 /\ Sp(o).end = Sp(o).data_at + 1


\* the cursor where the declared length of track k's chunk ends, or the end
\* of the buffer when it lies behind it
DeclaredEnd(k) ==
  LET s == starts[k]
      len == get_u16(buf, s - 2)
  IN  IF buf[s - 3] # 0 \/ buf[s - 2] # 0 \/ s + len > Len(buf)
      THEN Len(buf)
      ELSE s + len

\* C16 as stated: a track's events are decoded only up to the chunk's
\* declared length or its End Of Track event, whichever comes first; no byte
\* behind the declared length is decoded as an event of the track.
TrackWithinDeclaredLength ==
  \A e \in EventIds : Sp(e).end <= DeclaredEnd(e[1])

\* C16 amended: a track's events are decoded from the bytes behind the
\* chunk's 8-byte header, one behind the other, until the track's End Of
\* Track event or the end of the buffer, whichever comes first; the declared
\* length is not consulted, and the next chunk's header is taken 8 bytes
\* behind the track's last event.
TrackExtent ==
  \A k \in 1..Len(spans) :
    /\ starts[k] = IF k = 1 THEN 14 + 8 ELSE TrackEnd(k - 1) + 8
    /\ \A i \in 1..Len(spans[k]) :
         /\ spans[k][i].start = IF i = 1 THEN starts[k] ELSE spans[k][i - 1].end
         /\ IsMeta(<<k, i>>, 47) => i = Len(spans[k])
    /\ k <= Len(tracks)
       => \/ TrackEnd(k) = Len(buf)
          \/ spans[k] # <<>> /\ IsMeta(<<k, Len(spans[k])>>, 47)

\* C16 witness: a decode has succeeded with a track whose End Of Track event
\* lies behind the chunk's declared length
TrackExtentWitness ==
  /\ result = "Ok"
  /\ \E k \in 1..Len(tracks) :
       /\ tracks[k].end_of_track
       /\ DeclaredEnd(k) < Len(buf)
       /\ Len(spans[k]) >= 2
       /\ spans[k][Len(spans[k])].start >= DeclaredEnd(k)


\* the value of a meta event's length field
MetaLength(e) == read_value(buf, Sp(e).st_at + 2).value

\* C17: in every iteration the delta-time is read before the status byte,
\* the event's delta_tick is that value, and events are appended in the order
\* of their bytes; on success the i-th element of a track's list is the i-th
\* event of the track's byte stream, none dropped or reordered: where the
\* status byte is omitted the event's data begin at the byte that stands in
\* its place, and a meta event extends over the payload its length announces.
WireOrder ==
  /\ \A e \in EventIds :
       LET delta == read_value(buf, Sp(e).start)
       IN  /\ delta.ok
           /\ Sp(e).st_at = delta.pos
           /\ Ev(e).delta_tick = delta.value
           /\ Sp(e).start = IF e[2] = 1 THEN starts[e[1]]
                            ELSE Sp(<<e[1], e[2] - 1>>).end
  /\ \A k \in 1..Len(Decoded) : Len(Decoded[k].events) = Len(spans[k])
  /\ result = "Ok"
     => \A e \in EventIds :
          /\ Implicit(e) => (Ev(e).data.v # <<>> /\ Ev(e).data.v[1] = StatusByte(e))
          /\ StatusByte(e) = 255 => Sp(e).end = PayloadAt(e) + MetaLength(e)


\* the meta types whose payload is a string and that have no side effect
PlainStringTypes == {1, 2, 5, 6, 7, 127}

\* the string a string-valued meta event's length and payload bytes decode to
StringOf(e) == read_str(buf, PayloadAt(e), MetaLength(e)).s

\* the payload of track k's last meta event of type ty, or the empty string
LastString(k, ty) ==
  LET is == {i \in 1..Len(Decoded[k].events) : IsMeta(<<k, i>>, ty)}
  IN  IF is = {} THEN <<>>
      ELSE Ev(<<k, CHOOSE i \in is : \A j \in is : j <= i>>).data.v

\* C18: a Text, Copyright, Lyrics, Marker, Cue or SequencerSpecific event
\* leaves the track's name, instrument and end_of_track and the file's tempo
\* and bpm as they are; a Track Name event changes only the name, to the
\* decoded string of its length bytes, which is also its payload, and an
\* Instrument Name event only the instrument.  So a track's name is the
\* payload of its last Track Name event, its instrument that of its last
\* Instrument Name event, end_of_track tells an End Of Track event, and
\* without a SetTempo event tempo and bpm are what they were.
MetaSideEffects ==
  /\ \A e \in EventIds :
       (StatusByte(e) = 255
        /\ buf[Sp(e).st_at + 2] \in PlainStringTypes \cup {3, 4})
       => /\ Ev(e).data = SysexData("SingleString", StringOf(e))
          /\ Sp(e).end = PayloadAt(e) + MetaLength(e)
  /\ \A k \in 1..Len(Decoded) :
       /\ Decoded[k].name = LastString(k, 3)
       /\ Decoded[k].instrument = LastString(k, 4)
       /\ Decoded[k].end_of_track
          <=> \E i \in 1..Len(Decoded[k].events) : IsMeta(<<k, i>>, 47)
  /\ TempoEvents = {} => (file.tempo = before.tempo /\ file.bpm = before.bpm)

\* C18 witness: a decode has succeeded with a track named by its second
\* Track Name event and holding, behind it, string events of other types
MetaSideEffectsWitness ==
  /\ result = "Ok" /\ TempoEvents = {}
  /\ \E k \in 1..Len(file.tracks) :
       /\ file.tracks[k].name = <<66>>
       /\ file.tracks[k].instrument # <<>>
       /\ file.tracks[k].end_of_track
       /\ \E i, j \in 1..Len(file.tracks[k].events) :
            /\ i < j /\ IsMeta(<<k, i>>, 3) /\ IsMeta(<<k, j>>, 127)
            /\ Ev(<<k, j>>).data.v # <<>>


\* C19: in every state of a decode either tempo and bpm are both 0 and no
\* SetTempo event has been decoded, or tempo is the 24-bit big-endian value
\* b1 * 65536 + b2 * 256 + b3 of the first SetTempo event's payload bytes,
\* bpm is 60,000,000 div tempo, and that event's payload is (b1, b2, b3).
\* (On a MidiFile an earlier decode has filled, the first SetTempo event is
\* that decode's, and tempo and bpm stand in the same relation.)
TempoBpmRelation ==
  \/ /\ file.tempo = 0 /\ file.bpm = 0
     /\ TempoEvents = {}
  \/ /\ file.tempo # 0
     /\ file.bpm = 60000000 \div file.tempo
     /\ before.tempo = 0
        => /\ TempoEvents # {}
           /\ LET p == PayloadAt(FirstTempo)
              IN  /\ file.tempo = buf[p + 1] * 65536 + buf[p + 2] * 256 + buf[p + 3]
                  /\ Ev(FirstTempo).data =
                       SysexData("TripleU8", <<buf[p + 1], buf[p + 2], buf[p + 3]>>)

\* C19 witness: the first SetTempo event, 500000, has been decoded on a new
\* MidiFile
TempoBpmWitness ==
  /\ before = create /\ TempoEvents # {}
  /\ file.tempo = 500000 /\ file.bpm = 120
  /\ Ev(FirstTempo).data.v = <<7, 161, 32>>

\* the cursor behind the length field of the meta event that stands at p
PayloadFrom(p) == read_value(buf, read_value(buf, p).pos + 2).pos

\* C20: a SetTempo event processed while the tempo is unset completes and is
\* appended whatever its three payload bytes are, 0, 0, 0 included: the bpm
\* is never derived with a zero divisor.  So such an event fails only when
\* its three bytes are not all there.
SetTempoNeverDividesByZero ==
  (FailedInLoop /\ file.tempo = 0 /\ MetaAt(pos, 81))
  => remaining(buf, PayloadFrom(pos)) < 3


\* every completed iteration of a track's loop has left the cursor further on
\* than it found it, the tracks' loops are entered one behind the other, and
\* the for loop has counted the pushed tracks up to the declared number
IterationsConsume ==
  /\ \A e \in EventIds : Sp(e).start < Sp(e).end
  /\ \A k \in 1..Len(spans) : starts[k] <= TrackEnd(k)
  /\ \A k \in 2..Len(spans) : TrackEnd(k - 1) < starts[k]
  /\ pos <= Len(buf)
  /\ chunk = Len(tracks) /\ chunk <= track_chunks
  /\ Len(spans) <= track_chunks

\* the decode has stopped: parse has returned Ok or Err, or has panicked
Stopped == result # "none"

\* C21: every iteration of a track's decode loop strictly decreases the
\* number of bytes remaining, the running-status path and the inline Error
\* event included, so for every input buffer and declared track count the
\* decode eventually stops, successfully or with a failure.
ProgressAndTermination == []IterationsConsume /\ <>Stopped

\* C21 witness: a decode has stopped after iterations that took the
\* running-status path and that produced an inline Error event
ProgressWitness ==
  /\ Stopped
  /\ \E e, o \in EventIds :
       /\ Implicit(e) /\ Sp(e).start < Sp(e).end
       /\ StatusByte(o) = 241 /\ Ev(o).data.tag = "Error"
       /\ Sp(o).end = Sp(o).start + 2


====
